---------------------------- MODULE Spec2Model ----------------------------
(***************************************************************************)
(* Attribute resolution of a Hero (src/src/hero_builder.rs) and the run of  *)
(* a Study (src/src/studies.rs).                                           *)
(*                                                                         *)
(* Representation.                                                         *)
(*  - A Rust String that the code splits is a sequence of atoms.  An atom  *)
(*    is either one whitespace character (" " or "\t") or an indivisible   *)
(*    run of non-whitespace characters ("Fire", "2", "T4").  Two strings   *)
(*    are equal iff their atom sequences are equal.  Strings the code only *)
(*    compares whole or uses as map keys (class, item, skill, quality) are *)
(*    TLA+ strings.                                                        *)
(*  - f64 values are exact fixed-point integers.  Flat stat values are     *)
(*    counted in 1/VU, percentages in 1/PU, a per-item result in           *)
(*    1/(VU*PU) and the hero's stats in 1/AU with AU = VU*PU*PU.  Rounding *)
(*    of f64 is not modelled.                                              *)
(*  - u8 arithmetic keeps its width (see U8Mul).                           *)
(*  - studies.rs declares Study, create_study, StudyStatus and the trait   *)
(*    Runnable; the implementation of Runnable::run is in the submodule    *)
(*    static_duo_skill_study.  The steps of a run are therefore modelled   *)
(*    from section 4.3 of the specification.                               *)
(***************************************************************************)
EXTENDS Integers, Sequences, FiniteSets, TLC

VU == 4
PU == 100
AU == VU * PU * PU

Slots == 1..6
SkillSlots == 1..4

-----------------------------------------------------------------------------
(* Strings                                                                 *)

Whitespace == {" ", "\t"}

Str(name) == <<name>>
Desc(name, code) == <<name, " ", code>>

RECURSIVE SplitOn(_, _)
\* str::split(pat): consecutive separators yield empty pieces.
SplitOn(s, seps) ==
  IF s = <<>> THEN << <<>> >>
  ELSE LET rest == SplitOn(Tail(s), seps)
       IN  IF Head(s) \in seps
             THEN << <<>> >> \o rest
             ELSE << <<Head(s)>> \o Head(rest) >> \o Tail(rest)

\* element_string.split(" ")
split(s) == SplitOn(s, {" "})

NonEmpty(t) == t # <<>>

\* str::split_whitespace(): empty pieces are dropped.
split_whitespace(s) == SelectSeq(SplitOn(s, Whitespace), NonEmpty)

Digits == {"0", "1", "2", "3", "4", "5", "6", "7", "8", "9"}

DigitVal(a) ==
  CASE a = "0" -> 0 [] a = "1" -> 1 [] a = "2" -> 2 [] a = "3" -> 3
    [] a = "4" -> 4 [] a = "5" -> 5 [] a = "6" -> 6 [] a = "7" -> 7
    [] a = "8" -> 8 [] a = "9" -> 9

RECURSIVE DigitsVal(_, _)
DigitsVal(t, acc) ==
  IF t = <<>> THEN acc
  ELSE IF acc > 255 THEN acc
  ELSE DigitsVal(Tail(t), 10 * acc + DigitVal(Head(t)))

\* str::parse::<u8>(): an optional "+", then one or more digits, value at
\* most 255; -1 stands for Err.
parse_u8(t) ==
  LET d == IF t # <<>> /\ Head(t) = "+" THEN Tail(t) ELSE t
  IN  IF d = <<>> \/ \E i \in 1..Len(d) : d[i] \notin Digits THEN -1
      ELSE LET v == DigitsVal(d, 0) IN IF v > 255 THEN -1 ELSE v

-----------------------------------------------------------------------------
(* Static tables: the HashMaps handed to every resolution call.            *)


\* hero_classes: HashMap<String, HeroClass>.  The three curves are separate
\* Vecs; Astramancer's are of unequal length.
hero_classes ==
  [c \in {"Geomancer", "Astramancer", "Chieftain", "Knight"} |->
    [ base_hp  |-> CASE c = "Knight" -> <<30, 36>>
                     [] c = "Astramancer" -> <<20, 24, 28>>
                     [] OTHER -> <<20, 24>>,
      base_atk |-> CASE c = "Knight" -> <<10, 12>>
                     [] OTHER -> <<6, 8>>,
      base_def |-> CASE c = "Knight" -> <<12, 14>>
                     [] c = "Astramancer" -> <<4>>
                     [] OTHER -> <<4, 5>>,
      base_eva |-> 5,
      base_crit_chance |-> 5,
      base_crit_mult |-> 200,
      base_threat_rating |-> IF c = "Chieftain" THEN 5 ELSE 1,
      element_type |-> CASE c = "Geomancer" -> Str("Fire")
                         [] c = "Astramancer" -> Str("Water")
                         [] c = "Chieftain" -> Str("Fire")
                         [] c = "Knight" -> Str("Water"),
      equipment_allowed |->
        IF c \in {"Geomancer", "Astramancer"}
          THEN << <<"Staff", "Sword">>, <<"Armor">>, <<"Armor">>,
                  <<"Armor", "Ring">>, <<"Ring">>, <<"Ring", "Staff">> >>
          ELSE << <<"Sword">>, <<"Armor">>, <<"Armor">>,
                  <<"Armor", "Ring">>, <<"Ring">>, <<"Ring", "Sword">> >> ] ]

\* bp_map: HashMap<String, Blueprint>; the fields read through
\* get_type, get_atk, get_def, get_hp, get_elemental_affinity and
\* get_spirit_affinity.
bp_map ==
  [b \in {"Longsword", "Oak Staff", "Iron Plate", "Band"} |->
    CASE b = "Longsword" ->
           [type |-> "Sword", atk |-> 8, def |-> 0, hp |-> 0,
            elemental_affinity |-> Str("Fire"), spirit_affinity |-> Str("Wolf")]
      [] b = "Oak Staff" ->
           [type |-> "Staff", atk |-> 40, def |-> 0, hp |-> 20,
            elemental_affinity |-> Str("Fire"), spirit_affinity |-> Str("Kraken")]
      [] b = "Iron Plate" ->
           [type |-> "Armor", atk |-> 0, def |-> 30, hp |-> 6,
            elemental_affinity |-> Str("Luxurious"), spirit_affinity |-> Str("Hydra")]
      [] b = "Band" ->
           [type |-> "Ring", atk |-> 2, def |-> 2, hp |-> 2,
            elemental_affinity |-> Str("Water"), spirit_affinity |-> Str("Owl")] ]


\* class_innate_skill_names_map: HashMap<String, String>
class_innate_skill_names_map ==
  [c \in {"Geomancer", "Astramancer", "Chieftain", "Knight"} |->
    CASE c = "Geomancer" -> "Earthsong"
      [] c = "Astramancer" -> "Starfall"
      [] c = "Chieftain" -> "Warcry"
      [] c = "Knight" -> "Bulwark"]

InnateSkill(name, req, tier) ==
  [tier_1_name |-> name, element_qty_req |-> req, skill_tier |-> tier]

\* innate_skill_map: HashMap<String, InnateSkill>.  Earthsong is a regular
\* ladder; Starfall has only a floor tier; Warcry has two definitions of one
\* tier and a lower tier behind a higher threshold; Bulwark has no floor.
innate_skill_map ==
  [k \in {"Earthsong", "Earthsong II", "Earthsong III", "Earthsong IV",
          "Starfall", "Warcry", "Warcry II", "Warcry III", "Warcry IIIb",
          "Bulwark"} |->
    CASE k = "Earthsong" -> InnateSkill("Earthsong", 0, 1)
      [] k = "Earthsong II" -> InnateSkill("Earthsong", 10, 2)
      [] k = "Earthsong III" -> InnateSkill("Earthsong", 30, 3)
      [] k = "Earthsong IV" -> InnateSkill("Earthsong", 60, 4)
      [] k = "Starfall" -> InnateSkill("Starfall", 0, 1)
      [] k = "Warcry" -> InnateSkill("Warcry", 20, 1)
      [] k = "Warcry II" -> InnateSkill("Warcry", 0, 2)
      [] k = "Warcry III" -> InnateSkill("Warcry", 5, 3)
      [] k = "Warcry IIIb" -> InnateSkill("Warcry", 40, 3)
      [] k = "Bulwark" -> InnateSkill("Bulwark", 15, 1)]

HeroSkill(all, types, atk_item, def_item, atk_pct, atk_val) ==
  [bonus_stats_from_all_equipment_percent |-> all, item_types |-> types,
   attack_with_item_percent |-> atk_item,
   defense_with_item_percent |-> def_item,
   attack_percent |-> atk_pct, attack_value |-> atk_val]

\* hero_skill_map: HashMap<String, HeroSkill>; percentages in 1/PU.
hero_skill_map ==
  [k \in {"Blank", "Whirlwind", "Sword Master", "All Natural"} |->
    CASE k = "Blank" -> HeroSkill(0, <<>>, 0, 0, 0, 0)
      [] k = "Whirlwind" -> HeroSkill(0, <<>>, 0, 0, 10, 5)
      [] k = "Sword Master" -> HeroSkill(0, <<"Sword", "Staff">>, 50, 20, 0, 0)
      [] k = "All Natural" -> HeroSkill(25, <<>>, 0, 0, 5, 0)]

-----------------------------------------------------------------------------
(* Hero configurations handed to create_hero                               *)

MaxLevel == 3
MaxThreat == 2
MaxSeeds == 66

U8Max == 255

ClassNames == DOMAIN hero_classes \cup {"Bard"}
ItemNames == DOMAIN bp_map \cup {"Rusty Spoon"}
SkillNames == DOMAIN hero_skill_map \cup {"Lost Art"}
Qualities == {"Normal", "Superior", "Flawless", "Epic", "Legendary", "Shiny"}

ElemPair == {Desc("Fire", "4"), Desc("Water", "2")}
ElemMix == {Desc("Fire", "4"), Desc("Fire", "3"), Desc("Water", "2")}
ElemValid ==
  ElemMix \cup
  { Desc("Fire", "1"), Desc("Fire", "2"), Desc("Water", "1"),
    Desc("Luxurious", "1"), Desc("Luxurious", "2"), Desc("Opulent", "3") }
ElemAll ==
  ElemValid \cup
  { Desc("Water", "9"), Desc("Fire", "9"), Str("Fire"),
    <<"Water", "\t", "3">>, <<"Fire", " ", " ", "2">>,
    <<"Fire", " ", "0", "2">>, <<"Fire", " ", "2", " ", "x">> }

SpiritAtk == {Desc("Owl", "T4"), Desc("Wolf", "T4"), Desc("Kraken", "T7"),
              Desc("Bear", "T9")}
SpiritValid ==
  SpiritAtk \cup
  { Desc("Wolf", "T12"), Desc("Lion", "T5"), Desc("Chimera", "TM"),
    Desc("Hydra", "T11"), Desc("Kraken", "T12") }
SpiritAll == SpiritValid \cup {Desc("Wolf", "T1"), Str("Wolf")}

DefaultEq == <<"Longsword", "Iron Plate", "Iron Plate", "Band", "Band", "Band">>
DefaultQl == [i \in Slots |-> "Normal"]
DefaultEl == [i \in Slots |-> Desc("Fire", "1")]
DefaultSp == [i \in Slots |-> Desc("Owl", "T4")]
DefaultSk == [i \in SkillSlots |-> "Blank"]

Vary1(arr, vals) ==
  {[arr EXCEPT ![i] = a] : i \in DOMAIN arr, a \in vals}
Vary2(arr, vals) ==
  {[arr EXCEPT ![i] = a, ![j] = b] :
     i \in DOMAIN arr, j \in DOMAIN arr, a \in vals, b \in vals}

\* create_hero: every field is set from the argument of the same name.
create_hero(class, level, threat, etype, seeds, sk, eq, ql, el, sp) ==
  [identifier |-> "hero", class |-> class, level |-> level, rank |-> 1,
   innate_tier |-> 0,
   hp |-> 0, atk |-> 0, def |-> 0, eva |-> 0, crit_chance |-> 0,
   crit_mult |-> 0, threat_rating |-> threat, element_type |-> etype,
   atk_modifier |-> 0, def_modifier |-> 0,
   hp_seeds |-> seeds, atk_seeds |-> 0, def_seeds |-> 0,
   skills |-> sk,
   equipment_equipped |-> eq, equipment_quality |-> ql,
   elements_socketed |-> el, spirits_socketed |-> sp]

Plain(class, etype) ==
  create_hero(class, 1, 1, etype, 0, DefaultSk, DefaultEq, DefaultQl,
              DefaultEl, DefaultSp)

HeroInputs ==
  \* equipment against the class's slot lists
  { [Plain(c, Str("Fire")) EXCEPT !.equipment_equipped = eq] :
      c \in {"Knight", "Geomancer", "Bard"}, eq \in Vary2(DefaultEq, ItemNames) }
  \cup
  \* socketed elements: all six slots, two slots, and one slot of any shape
  { [Plain("Geomancer", Str("Fire")) EXCEPT !.elements_socketed = el] :
      el \in [Slots -> ElemPair] \cup Vary2(DefaultEl, ElemMix) }
  \cup
  { [Plain(c, t) EXCEPT !.elements_socketed = el] :
      c \in {"Geomancer", "Chieftain", "Knight"},
      t \in {Str("Fire"), Str("Water")},
      el \in Vary1(DefaultEl, ElemAll) }
  \cup
  \* one slot: item, element and spirit together
  { [Plain("Knight", Str("Fire")) EXCEPT
       !.equipment_equipped[1] = b, !.elements_socketed[1] = e,
       !.spirits_socketed[1] = p] :
      b \in DOMAIN bp_map, e \in ElemValid, p \in SpiritValid }
  \cup
  \* spirits in two slots
  { [Plain(c, Str("Fire")) EXCEPT !.spirits_socketed = sp] :
      c \in {"Knight", "Geomancer"}, sp \in Vary2(DefaultSp, SpiritAtk) }
  \cup
  { [Plain("Knight", Str("Fire")) EXCEPT !.spirits_socketed = sp] :
      sp \in Vary1(DefaultSp, SpiritAll) }
  \cup
  { [Plain("Knight", Str("Fire")) EXCEPT !.skills = sk] :
      sk \in Vary2(DefaultSk, SkillNames) }
  \cup
  { [Plain("Knight", Str("Fire")) EXCEPT !.equipment_quality = ql] :
      ql \in Vary1(DefaultQl, Qualities) }
  \cup
  { [Plain(c, Str("Fire")) EXCEPT !.hp_seeds = n] :
      c \in {"Knight", "Chieftain"}, n \in (0..MaxSeeds) \cup {U8Max} }
  \cup
  { [Plain(c, Str("Fire")) EXCEPT !.level = l, !.threat_rating = t] :
      c \in ClassNames, l \in 0..MaxLevel, t \in 0..MaxThreat }

-----------------------------------------------------------------------------
(* Study definitions handed to create_study                                *)

MaxSims == 2
MaxVariations == 2
MaxTiers == 2

\* enum StudyStatus
StudyStatus == {"Created", "Running", "Finished"}

\* runoff_scoring_threshold values, in percent
Thresholds == {0, 34, 50, 100}

\* the variation space handed to a run by the variation generator
Variations == 1..MaxVariations

\* create_study with the status field set to Running
create_study_Running(simulation_qty, runoff_scoring_threshold) ==
  [identifier |-> "study", description |-> "",
   simulation_qty |-> simulation_qty,
   runoff_scoring_threshold |-> runoff_scoring_threshold,
   status |-> "Running"]

\* create_study: every field is set from the argument of the same name and
\* status is Created.  hero_builder_information holds the static tables
\* above.
create_study(simulation_qty, runoff_scoring_threshold) ==
  [identifier |-> "study", description |-> "",
   simulation_qty |-> simulation_qty,
   runoff_scoring_threshold |-> runoff_scoring_threshold,
   status |-> "Created"]

-----------------------------------------------------------------------------
(* State                                                                   *)

VARIABLES
  hero,      \* the Hero being resolved
  resolved,  \* calculate_stat_improvements_from_gear_and_skills has run
  ret,       \* the last call: operation, outcome, panic site, return value
  calc,      \* locals of the last stat-improvement call
  study,     \* the Study
  run        \* the position and the locals of Runnable::run on the study

hero_vars == <<hero, resolved, ret, calc>>
study_vars == <<study, run>>
vars == <<hero, resolved, ret, calc, study, run>>

NoRet == [op |-> "create_hero", outcome |-> "ok", site |-> "", value |-> 0]
NoCalc == [site |-> "", done |-> FALSE]

Ok(op, v) == [op |-> op, outcome |-> "ok", site |-> "", value |-> v]
Panic(op, site) == [op |-> op, outcome |-> "panic", site |-> site, value |-> 0]

\* run has not been called
NoRun ==
  [pc |-> "idle", tiers |-> 0, tier |-> 0, candidates |-> {},
   in_trial |-> {}, trials |-> [v \in Variations |-> 0],
   score |-> [v \in Variations |-> 0],
   ranking |-> << >>, retained |-> {}, processed |-> << >>,
   entered |-> << >>, kept |-> << >>]

Init ==
  /\ hero \in HeroInputs
  /\ resolved = FALSE
  /\ ret = NoRet
  /\ calc = NoCalc
  /\ study = create_study(1, 100)
  /\ run = NoRun

\* A panic unwinds the caller: nothing runs on the hero afterwards.
Alive == ret.outcome = "ok"

-----------------------------------------------------------------------------
(* Hero::validate_equipment                                                *)

Contains(seq, x) == \E k \in 1..Len(seq) : seq[k] = x

RECURSIVE ValidateFrom_AnySlot(_, _, _)
\* ValidateFrom with the item's type looked up in every slot's list
ValidateFrom_AnySlot(h, class, i) ==
  IF i > 6 THEN ""
  ELSE LET equipment == h.equipment_equipped[i]
       IN  IF equipment \notin DOMAIN bp_map THEN "unknown item"
           ELSE IF \A j \in Slots :
                     ~Contains(class.equipment_allowed[j], bp_map[equipment].type)
                  THEN "type not allowed"
                  ELSE ValidateFrom_AnySlot(h, class, i + 1)

RECURSIVE ValidateFrom(_, _, _)
\* the for loop over equipment_equipped.iter().enumerate(), from slot i
ValidateFrom(h, class, i) ==
  IF i > 6 THEN ""
  ELSE LET equipment == h.equipment_equipped[i]
       IN  IF equipment \notin DOMAIN bp_map THEN "unknown item"
           ELSE IF ~Contains(class.equipment_allowed[i], bp_map[equipment].type)
                  THEN "type not allowed"
                  ELSE ValidateFrom(h, class, i + 1)

\* "" when the call returns, otherwise the panic that ends it
validate_equipment(h) ==
  IF h.class \notin DOMAIN hero_classes THEN "unknown class"
  ELSE ValidateFrom(h, hero_classes[h.class], 1)

ValidateEquipment ==
  /\ Alive
  /\ LET site == validate_equipment(hero)
     IN  ret' = IF site = "" THEN Ok("validate_equipment", 0)
                ELSE Panic("validate_equipment", site)
  /\ UNCHANGED <<hero, resolved, calc>>
  /\ UNCHANGED study_vars

-----------------------------------------------------------------------------
(* Hero::calculate_element_qty                                             *)

U16Max == 65535

\* GradePoints with grade 4 continuing the 5-point steps
GradePoints_Linear(grade) ==
  CASE grade = Str("1") -> 5
    [] grade = Str("2") -> 10
    [] grade = Str("3") -> 15
    [] grade = Str("4") -> 20
    [] OTHER -> -1

GradePoints(grade) ==
  CASE grade = Str("1") -> 5
    [] grade = Str("2") -> 10
    [] grade = Str("3") -> 15
    [] grade = Str("4") -> 25
    [] OTHER -> -1

RECURSIVE ElementQtyFrom(_, _, _)
\* the loop over elements_socketed with element_qty = acc; the result is
\* [site |-> "", qty |-> n] on return and [site |-> panic, qty |-> 0] else
ElementQtyFrom(h, i, acc) ==
  IF i > 6 THEN [site |-> "", qty |-> acc]
  ELSE LET split_vec == split(h.elements_socketed[i])
       IN  IF Len(split_vec) < 2 THEN [site |-> "element format", qty |-> 0]
           ELSE LET element == split_vec[1]
                    grade == split_vec[2]
                IN  IF element = h.element_type
                      THEN IF GradePoints(grade) < 0
                             THEN [site |-> "element grade", qty |-> 0]
                           ELSE IF acc + GradePoints(grade) > U16Max
                             THEN [site |-> "u16 overflow", qty |-> 0]
                           ELSE ElementQtyFrom(h, i + 1, acc + GradePoints(grade))
                      ELSE ElementQtyFrom(h, i + 1, acc)

calculate_element_qty(h) == ElementQtyFrom(h, 1, 0)

CalculateElementQty ==
  /\ Alive
  /\ LET r == calculate_element_qty(hero)
     IN  ret' = IF r.site = "" THEN Ok("calculate_element_qty", r.qty)
                ELSE Panic("calculate_element_qty", r.site)
  /\ UNCHANGED <<hero, resolved, calc>>
  /\ UNCHANGED study_vars

-----------------------------------------------------------------------------
(* Hero::scale_by_class                                                    *)

\* self.level - 1 in u8, then usize::from: level 0 panics when overflow
\* checks are compiled in and wraps to 255 when they are not; -1 is the panic.
LevelIndex(level, checked) ==
  IF level >= 1 THEN level - 1
  ELSE IF checked THEN -1 ELSE U8Max

\* vec[idx] with idx zero-based
InBounds(vec, idx) == idx + 1 <= Len(vec)

\* scale_by_class with the four assignments that do not index a curve made
\* before the three that do
scale_by_class_ConstantsFirst(h, checked) ==
  IF h.class \notin DOMAIN hero_classes
    THEN [hero |-> h, site |-> "unknown class"]
  ELSE
    LET class == hero_classes[h.class]
        level_index == LevelIndex(h.level, checked)
        ix == level_index + 1
        h0 == [h EXCEPT !.eva = class.base_eva,
                        !.crit_chance = class.base_crit_chance,
                        !.crit_mult = class.base_crit_mult,
                        !.element_type = class.element_type]
    IN  IF level_index < 0 THEN [hero |-> h, site |-> "level underflow"]
        ELSE IF ~InBounds(class.base_hp, level_index)
          THEN [hero |-> h0, site |-> "base_hp index"]
        ELSE IF ~InBounds(class.base_atk, level_index)
          THEN [hero |-> [h0 EXCEPT !.hp = class.base_hp[ix] * AU],
                site |-> "base_atk index"]
        ELSE IF ~InBounds(class.base_def, level_index)
          THEN [hero |-> [h0 EXCEPT !.hp = class.base_hp[ix] * AU,
                                    !.atk = class.base_atk[ix] * AU],
                site |-> "base_def index"]
        ELSE [hero |-> [h0 EXCEPT !.hp = class.base_hp[ix] * AU,
                                  !.atk = class.base_atk[ix] * AU,
                                  !.def = class.base_def[ix] * AU],
              site |-> ""]

\* The assignments in source order; an out-of-bounds index panics with the
\* earlier assignments already made.  The result is the hero and the panic
\* site ("" on return).
scale_by_class(h, checked) ==
  IF h.class \notin DOMAIN hero_classes
    THEN [hero |-> h, site |-> "unknown class"]
  ELSE
    LET class == hero_classes[h.class]
        level_index == LevelIndex(h.level, checked)
        ix == level_index + 1
    IN  IF level_index < 0 THEN [hero |-> h, site |-> "level underflow"]
        ELSE IF ~InBounds(class.base_hp, level_index)
          THEN [hero |-> h, site |-> "base_hp index"]
        ELSE IF ~InBounds(class.base_atk, level_index)
          THEN [hero |-> [h EXCEPT !.hp = class.base_hp[ix] * AU],
                site |-> "base_atk index"]
        ELSE IF ~InBounds(class.base_def, level_index)
          THEN [hero |-> [h EXCEPT !.hp = class.base_hp[ix] * AU,
                                   !.atk = class.base_atk[ix] * AU],
                site |-> "base_def index"]
        ELSE [hero |-> [h EXCEPT !.hp = class.base_hp[ix] * AU,
                                 !.atk = class.base_atk[ix] * AU,
                                 !.def = class.base_def[ix] * AU,
                                 !.eva = class.base_eva,
                                 !.crit_chance = class.base_crit_chance,
                                 !.crit_mult = class.base_crit_mult,
                                 !.element_type = class.element_type],
              site |-> ""]

ScaleByClass ==
  /\ Alive
  /\ \E checked \in BOOLEAN :
       LET r == scale_by_class(hero, checked)
       IN  /\ hero' = r.hero
           /\ ret' = IF r.site = "" THEN Ok("scale_by_class", 0)
                     ELSE Panic("scale_by_class", r.site)
  /\ UNCHANGED <<resolved, calc>>
  /\ UNCHANGED study_vars

-----------------------------------------------------------------------------
(* Hero::calculate_innate_tier                                             *)

\* FilterVariants with <= for <
FilterVariants_AtMost(innate_skill, element_qty) ==
  { k \in DOMAIN innate_skill_map :
      /\ innate_skill_map[k].tier_1_name = innate_skill
      /\ innate_skill_map[k].element_qty_req <= element_qty }

\* the keys kept by the filter closure
FilterVariants(innate_skill, element_qty) ==
  { k \in DOMAIN innate_skill_map :
      /\ innate_skill_map[k].tier_1_name = innate_skill
      /\ innate_skill_map[k].element_qty_req < element_qty }

\* The possible contents of innate_skill_variants after
\* sort_unstable_by_key: HashMap::values() yields the entries in any order
\* and the unstable sort leaves equal keys in any order, so every
\* arrangement that is non-decreasing in skill_tier can result.
SortedVariants(F) ==
  { s \in [1..Cardinality(F) -> F] :
      /\ \A i, j \in DOMAIN s : i # j => s[i] # s[j]
      /\ \A i, j \in DOMAIN s :
           i < j => innate_skill_map[s[i]].skill_tier
                      <= innate_skill_map[s[j]].skill_tier }

\* PickVariant taking the first entry
PickVariant_First(s) == s[1]

\* innate_skill_variants[innate_skill_variants.len() - 1]: the last entry
PickVariant(s) == s[Len(s)]

\* The tiers the selection can assign; empty when indexing the empty Vec
\* panics (len() - 1 underflows, or wraps to an out-of-bounds index).
InnateTiers(innate_skill, element_qty) ==
  { innate_skill_map[PickVariant(s)].skill_tier :
      s \in { t \in SortedVariants(FilterVariants(innate_skill, element_qty)) :
                Len(t) > 0 } }

CalculateInnateTier ==
  /\ Alive
  /\ LET q == calculate_element_qty(hero)
     IN  IF q.site # ""
           THEN /\ ret' = Panic("calculate_innate_tier", q.site)
                /\ UNCHANGED hero
         ELSE IF hero.class \notin DOMAIN class_innate_skill_names_map
           THEN /\ ret' = Panic("calculate_innate_tier", "unknown class")
                /\ UNCHANGED hero
         ELSE LET tiers == InnateTiers(class_innate_skill_names_map[hero.class],
                                       q.qty)
              IN  IF tiers = {}
                    THEN /\ ret' = Panic("calculate_innate_tier", "no variant")
                         /\ UNCHANGED hero
                    ELSE \E t \in tiers :
                           /\ hero' = [hero EXCEPT !.innate_tier = t]
                           /\ ret' = Ok("calculate_innate_tier", q.qty)
  /\ UNCHANGED <<resolved, calc>>
  /\ UNCHANGED study_vars

-----------------------------------------------------------------------------
(* Hero::calculate_stat_improvements_from_gear_and_skills                  *)

Min(a, b) == IF a <= b THEN a ELSE b

\* a flat (Attack, Defense, HP) triple of whole points, in 1/VU
Flat(a, d, h) == <<a * VU, d * VU, h * VU>>

\* Amplify with the factor 2
Amplify_Double(b, match) ==
  IF match THEN <<b[1] * 2, b[2] * 2, b[3] * 2>> ELSE b

\* *= 1.5 on the three flat bonuses when the affinity matches
Amplify(b, match) ==
  IF match THEN <<(b[1] * 3) \div 2, (b[2] * 3) \div 2, (b[3] * 3) \div 2>>
  ELSE b

\* Capped with f64::max for f64::min
Capped_Max(bonus, base) == IF bonus >= base THEN bonus ELSE base

\* f64::min(bonus, blueprint stat)
Capped(bonus, base) == Min(bonus, base)

\* the skills' percentages for one item; "" or the panic site
RECURSIVE ItemSkillBonus(_, _, _, _)
ItemSkillBonus(h, blueprint, k, acc) ==
  IF k > 4 THEN acc
  ELSE IF h.skills[k] \notin DOMAIN hero_skill_map
    THEN [acc EXCEPT !.site = "unknown skill"]
  ELSE LET skill == hero_skill_map[h.skills[k]]
           n == Cardinality({t \in 1..Len(skill.item_types) :
                               skill.item_types[t] = blueprint.type})
       IN  ItemSkillBonus(h, blueprint, k + 1,
             [acc EXCEPT
                !.all = @ + skill.bonus_stats_from_all_equipment_percent,
                !.atk = @ + n * skill.attack_with_item_percent,
                !.def = @ + n * skill.defense_with_item_percent])

\* gear_quality_bonus in 1/VU; 0 for the panic arm
QualityBonus(gear_quality) ==
  CASE gear_quality = "Normal" -> 4
    [] gear_quality = "Superior" -> 5
    [] gear_quality = "Flawless" -> 6
    [] gear_quality = "Epic" -> 8
    [] gear_quality = "Legendary" -> 12
    [] OTHER -> 0

\* gear_element_split[1].parse::<u8>().unwrap(); -1 when the index or the
\* unwrap panics
ElementTier(gear_element) ==
  IF Len(split_whitespace(gear_element)) < 2 THEN -1
  ELSE parse_u8(split_whitespace(gear_element)[2])

\* the match on gear_element_tier; << >> for the panic arm
ElementFlat(gear_element, gear_element_tier) ==
  CASE gear_element_tier = 1 ->
         IF gear_element = Desc("Luxurious", "1") THEN Flat(26, 18, 5)
         ELSE Flat(14, 10, 3)
    [] gear_element_tier = 2 -> Flat(38, 25, 8)
    [] gear_element_tier = 3 ->
         IF gear_element = Desc("Opulent", "3") THEN Flat(63, 42, 13)
         ELSE Flat(48, 32, 10)
    [] gear_element_tier = 4 -> Flat(89, 59, 18)
    [] OTHER -> << >>

\* the affinity check on a matched triple; << >> stays the panic
AmplifyIf(flat, affinity, name) ==
  IF flat = << >> THEN << >> ELSE Amplify(flat, affinity = name)

\* the element bonus of a slot after the affinity check; << >> on a panic
GearElementBonus(gear_element, element_affinity) ==
  IF ElementTier(gear_element) < 0 THEN << >>
  ELSE AmplifyIf(ElementFlat(gear_element, ElementTier(gear_element)),
                 element_affinity, split_whitespace(gear_element)[1])

\* the match on gear_spirit_tier; << >> for the panic arm
SpiritFlat(gear_spirit_tier) ==
  CASE gear_spirit_tier = Str("T4") -> Flat(16, 11, 3)
    [] gear_spirit_tier = Str("T5") -> Flat(26, 18, 5)
    [] gear_spirit_tier = Str("T7") -> Flat(41, 27, 8)
    [] gear_spirit_tier = Str("T9") -> Flat(48, 32, 10)
    [] gear_spirit_tier = Str("TM") -> Flat(50, 33, 10)
    [] gear_spirit_tier = Str("T11") -> Flat(63, 42, 13)
    [] gear_spirit_tier = Str("T12") -> Flat(89, 59, 18)
    [] OTHER -> << >>

\* the spirit bonus of a slot after the affinity check; << >> on a panic
GearSpiritSplit(gear_spirit_split, spirit_affinity) ==
  IF Len(gear_spirit_split) < 2 THEN << >>
  ELSE AmplifyIf(SpiritFlat(gear_spirit_split[2]), spirit_affinity,
                 gear_spirit_split[1])

GearSpiritBonus(gear_spirit, spirit_affinity) ==
  GearSpiritSplit(split_whitespace(gear_spirit), spirit_affinity)

\* The match on gear_spirit_name, for the two locals that reach the hero:
\* an arm assigns (it does not add to) spirit_bonus_atk_value and
\* spirit_bonus_atk_percent.  The arms of Ram, Eagle, Ox, Viper, Cat,
\* Walrus, Mammoth, Tiger, Phoenix, Hydra, Tarrasque and Carbuncle assign
\* only locals that are never read again, as do the other assignments of
\* Bear, Lion and Chimera.
SpiritSpecial(gear_spirit_name, match, sp) ==
  CASE gear_spirit_name = Str("Wolf") ->
         [sp EXCEPT !.atk_percent = IF match THEN 10 ELSE 5]
    [] gear_spirit_name = Str("Bear") ->
         [sp EXCEPT !.atk_percent = IF match THEN 7 ELSE 5]
    [] gear_spirit_name = Str("Lion") ->
         [sp EXCEPT !.atk_percent = IF match THEN 7 ELSE 5]
    [] gear_spirit_name = Str("Chimera") ->
         [sp EXCEPT !.atk_percent = IF match THEN 15 ELSE 10]
    [] gear_spirit_name = Str("Kraken") ->
         [sp EXCEPT !.atk_value = IF match THEN 125 ELSE 100,
                    !.atk_percent = IF match THEN 15 ELSE 10]
    [] OTHER -> sp

\* the three per-item results from the locals of one pass
ItemFinal(blueprint, quality, sk, elem, spirit, ce, cs) ==
  [site |-> "",
   quality |-> quality, skill |-> sk,
   elem |-> elem, spirit |-> spirit,
   capped_elem |-> ce, capped_spirit |-> cs,
   item_attack_final |->
     (blueprint.atk * quality + ce[1] + cs[1]) * (PU + sk.atk + sk.all),
   item_defense_final |->
     (blueprint.def * quality + ce[2] + cs[2]) * (PU + sk.def + sk.all),
   item_hp_final |->
     (blueprint.hp * quality + ce[3] + cs[3]) * (PU + sk.all)]

\* the panics of one pass in source order, then the results
ItemLocals(blueprint, quality, sk, elem, spirit, base) ==
  IF sk.site # "" THEN [site |-> sk.site]
  ELSE IF quality = 0 THEN [site |-> "unknown gear_quality"]
  ELSE IF elem = << >> THEN [site |-> "gear_element"]
  ELSE IF spirit = << >> THEN [site |-> "gear_spirit"]
  ELSE ItemFinal(blueprint, quality, sk, elem, spirit,
                 [k \in 1..3 |-> Capped(elem[k], base[k])],
                 [k \in 1..3 |-> Capped(spirit[k], base[k])])

\* the blueprint's Attack, Defense and HP in 1/VU
BaseStats(blueprint) ==
  <<blueprint.atk * VU, blueprint.def * VU, blueprint.hp * VU>>

\* One pass of the gear loop for slot i (gear_index i - 1): the per-item
\* locals, or the site of the panic that ends the call.
GearItem(h, i, blueprint) ==
  ItemLocals(blueprint,
             QualityBonus(h.equipment_quality[i]),
             ItemSkillBonus(h, blueprint, 1,
                            [site |-> "", all |-> 0, atk |-> 0, def |-> 0]),
             GearElementBonus(h.elements_socketed[i],
                              blueprint.elemental_affinity),
             GearSpiritBonus(h.spirits_socketed[i], blueprint.spirit_affinity),
             BaseStats(blueprint))

\* the running totals and the spirit locals after one pass
GearStep(acc, it, special) ==
  [acc EXCEPT
     !.items = Append(@, it),
     !.bonus_atk_value = @ + it.item_attack_final,
     !.bonus_def_value = @ + it.item_defense_final,
     !.bonus_hp_value = @ + it.item_hp_final,
     !.spirit_bonus_atk_value = special.atk_value,
     !.spirit_bonus_atk_percent = special.atk_percent]

\* the spirit locals after the match on the slot's gear_spirit_name
SlotSpecial(acc, gear_spirit_name, spirit_affinity) ==
  SpiritSpecial(gear_spirit_name, spirit_affinity = gear_spirit_name,
                [atk_value |-> acc.spirit_bonus_atk_value,
                 atk_percent |-> acc.spirit_bonus_atk_percent])

RECURSIVE GearFrom(_, _, _)
GearPass(h, i, acc, it) ==
  IF it.site # "" THEN [acc EXCEPT !.site = it.site]
  ELSE GearFrom(h, i + 1,
         GearStep(acc, it,
           SlotSpecial(acc, split_whitespace(h.spirits_socketed[i])[1],
                       bp_map[h.equipment_equipped[i]].spirit_affinity)))

\* the gear loop from slot i, with the running totals and the spirit
\* locals in acc
GearFrom(h, i, acc) ==
  IF i > 6 THEN acc
  ELSE GearPass(h, i, acc, GearItem(h, i, bp_map[h.equipment_equipped[i]]))

RECURSIVE SkillTotals(_, _, _)
\* the hero-wide skill loop: attack_percent and attack_value summed
SkillTotals(h, k, acc) ==
  IF k > 4 THEN acc
  ELSE LET skill == hero_skill_map[h.skills[k]]
       IN  SkillTotals(h, k + 1,
             [atk_percent |-> acc.atk_percent + skill.attack_percent,
              atk_value |-> acc.atk_value + skill.attack_value])

\* The match on self.class, in 1/PU: f64::from(calculate_element_qty()) for
\* Geomancer and Astramancer, 0.4 * threat_rating for Chieftain.
ClassBonus(h, element_qty) ==
  CASE h.class = "Geomancer" -> element_qty * PU
    [] h.class = "Astramancer" -> element_qty * PU
    [] h.class = "Chieftain" -> 40 * h.threat_rating
    [] OTHER -> 0

\* self.hp_seeds * 4 in u8: a panic (-1) when overflow checks are compiled
\* in, the product modulo 256 when they are not
U8Mul(a, b, checked) ==
  IF a * b <= U8Max THEN a * b
  ELSE IF checked THEN -1 ELSE (a * b) % (U8Max + 1)

\* v * p for v in 1/AU and p in 1/PU; every v the call multiplies is a
\* multiple of PU, so the quotient is exact
MulPct(v, p) == (v \div PU) * p

\* NewAtk with the gear total left out of the percent modifier
NewAtk_GearUnmodified(summarized_base_atk_value, bonus_atk_value, modifier) ==
  MulPct(summarized_base_atk_value, modifier) + bonus_atk_value * PU

\* modified_atk_value + modified_atk_bonus, with the gear total in 1/(VU*PU)
NewAtk(summarized_base_atk_value, bonus_atk_value, modifier) ==
  MulPct(summarized_base_atk_value, modifier) + bonus_atk_value * modifier

\* the locals of the ATK calc and the two values assigned to self
AtkCalc(h, gear, skills, class_bonus, seeded_atk) ==
  [site |-> "", done |-> TRUE,
   items |-> gear.items,
   bonus_atk_value |-> gear.bonus_atk_value,
   spirit_bonus_atk_value |-> gear.spirit_bonus_atk_value,
   spirit_bonus_atk_percent |-> gear.spirit_bonus_atk_percent,
   skill_bonus_atk_value |-> skills.atk_value,
   skill_bonus_atk_percent |-> skills.atk_percent,
   class_bonus |-> class_bonus,
   base_atk |-> h.atk,
   seeded_atk |-> seeded_atk,
   new_atk |->
     NewAtk(seeded_atk
              + (gear.spirit_bonus_atk_value + skills.atk_value) * AU,
            gear.bonus_atk_value,
            PU + skills.atk_percent + class_bonus
              + gear.spirit_bonus_atk_percent),
   new_atk_mod |-> skills.atk_percent + class_bonus
                   + gear.spirit_bonus_atk_percent]

\* the panics after the gear loop in source order, then the ATK calc
AfterGear(h, gear, q, seeds) ==
  IF gear.site # "" THEN [site |-> gear.site]
  ELSE IF q.site # "" THEN [site |-> q.site]
  ELSE IF seeds < 0 THEN [site |-> "hp_seeds overflow"]
  ELSE AtkCalc(h, gear,
               SkillTotals(h, 1, [atk_percent |-> 0, atk_value |-> 0]),
               ClassBonus(h, q.qty), h.atk + seeds * AU)

\* calculate_element_qty as the match on self.class calls it
ClassElementQty(h) ==
  IF h.class \in {"Geomancer", "Astramancer"} THEN calculate_element_qty(h)
  ELSE [site |-> "", qty |-> 0]

\* The whole call: the locals that decide the two assignments, or the site
\* of the panic.  Every panic precedes the assignments to self.
stat_improvements(h, checked) ==
  IF \E i \in Slots : h.equipment_equipped[i] \notin DOMAIN bp_map
    THEN [site |-> "unknown item"]
  ELSE AfterGear(h,
         GearFrom(h, 1,
           [site |-> "", items |-> << >>, bonus_atk_value |-> 0,
            bonus_def_value |-> 0, bonus_hp_value |-> 0,
            spirit_bonus_atk_value |-> 0, spirit_bonus_atk_percent |-> 0]),
         ClassElementQty(h),
         U8Mul(h.hp_seeds, 4, checked))

\* AssignAtk writing the defense modifier as well
AssignAtk_AlsoDef(h, r) ==
  [h EXCEPT !.atk = r.new_atk, !.atk_modifier = r.new_atk_mod,
            !.def_modifier = r.new_atk_mod]

\* self.atk and self.atk_modifier assigned
AssignAtk(h, r) == [h EXCEPT !.atk = r.new_atk, !.atk_modifier = r.new_atk_mod]

StatOutcome(r) ==
  IF r.site # ""
    THEN /\ ret' = Panic("calculate_stat_improvements", r.site)
         /\ UNCHANGED <<hero, resolved, calc>>
    ELSE /\ hero' = AssignAtk(hero, r)
         /\ resolved' = TRUE
         /\ calc' = r
         /\ ret' = Ok("calculate_stat_improvements", 0)

\* The call is applied once to a hero: applied again it would compound
\* self.atk, which the fixed-point unit AU does not represent.
CalculateStatImprovements ==
  /\ Alive
  /\ ~resolved
  /\ \E checked \in BOOLEAN : StatOutcome(stat_improvements(hero, checked))
  /\ UNCHANGED study_vars

-----------------------------------------------------------------------------
(* Runnable::run on a Study, after section 4.3 of the specification.       *)
(* run.pc is the position of the run: "idle" before the call, "trials"     *)
(* while the workers of the current tier run, "ranking" once the ranking   *)
(* of the tier is made, "filtered" once its retained set is, "done" after  *)
(* the run; run.processed lists the tiers filtered so far, run.entered and  *)
(* run.kept the candidate set and the retained set of each.  Variations    *)
(* are resolved by the steps above and are taken to resolve without a      *)
(* panic here.                                                             *)

StudyInputs == {create_study(n, t) : n \in 0..MaxSims, t \in Thresholds}

StudyInit ==
  /\ hero = Plain("Knight", Str("Water"))
  /\ resolved = FALSE
  /\ ret = NoRet
  /\ calc = NoCalc
  /\ study \in StudyInputs
  /\ run \in {[NoRun EXCEPT !.tiers = n] : n \in 1..MaxTiers}

\* the run enters a tier with the given candidates: no trial made yet
StartTier(r, tier, candidates) ==
  [r EXCEPT !.pc = "trials", !.tier = tier, !.candidates = candidates,
            !.in_trial = {}, !.trials = [v \in Variations |-> 0],
            !.score = [v \in Variations |-> 0],
            !.ranking = << >>, !.retained = {},
            !.entered = Append(@, candidates)]

\* run is called on a study that has not run
Run ==
  /\ study.status = "Created"
  /\ run.pc = "idle"
  /\ study' = [study EXCEPT !.status = "Running"]
  /\ run' = StartTier(run, 1, Variations)
  /\ UNCHANGED hero_vars

\* the worker of variation v hands the resolved hero to the trial executor
BeginTrial(v) ==
  /\ run.pc = "trials"
  /\ v \in run.candidates
  /\ v \notin run.in_trial
  /\ run.trials[v] < study.simulation_qty
  /\ run' = [run EXCEPT !.in_trial = @ \cup {v}]
  /\ UNCHANGED <<study, hero_vars>>

\* the trial executor returns an outcome to the worker of variation v
EndTrial(v) ==
  /\ v \in run.in_trial
  /\ \E success \in BOOLEAN :
       run' = [run EXCEPT !.in_trial = @ \ {v},
                          !.trials[v] = @ + 1,
                          !.score[v] = @ + IF success THEN 1 ELSE 0]
  /\ UNCHANGED <<study, hero_vars>>

\* AllTrialsDone asking for one finished variation only
AllTrialsDone_Some(r, simulation_qty) ==
  \/ r.candidates = {}
  \/ \E v \in r.candidates : r.trials[v] >= simulation_qty

\* every candidate of the tier has had its simulation_qty trials
AllTrialsDone(r, simulation_qty) ==
  \A v \in r.candidates : r.trials[v] >= simulation_qty

\* the candidates by aggregate score, descending; equal scores in any order
Rankings(candidates, score) ==
  { s \in [1..Cardinality(candidates) -> candidates] :
      /\ \A i, j \in DOMAIN s : i # j => s[i] # s[j]
      /\ \A i, j \in DOMAIN s : i < j => score[s[i]] >= score[s[j]] }

Rank ==
  /\ run.pc = "trials"
  /\ AllTrialsDone(run, study.simulation_qty)
  /\ \E s \in Rankings(run.candidates, run.score) :
       run' = [run EXCEPT !.pc = "ranking", !.ranking = s]
  /\ UNCHANGED <<study, hero_vars>>

\* RetainCounts taking strictly less than the percentage of n
RetainCounts_Exclusive(n, threshold) ==
  {k \in 0..n : \/ k * 100 < n * threshold /\ (k + 1) * 100 >= n * threshold
                \/ k = 0 /\ n * threshold = 0}

\* How many of n ranked variations the top threshold percent are: the
\* percentage of n, rounded down or up (the rounding is not specified).
RetainCounts(n, threshold) ==
  {k \in 0..n : /\ k * 100 >= n * threshold - 99
                /\ k * 100 <= n * threshold + 99
                /\ (n * threshold) % 100 = 0 => k * 100 = n * threshold}

\* the first k of the ranking
TopRanked(ranking, k) == {ranking[i] : i \in 1..k}

Filter ==
  /\ run.pc = "ranking"
  /\ \E k \in RetainCounts(Len(run.ranking), study.runoff_scoring_threshold) :
       run' = [run EXCEPT !.pc = "filtered",
                          !.retained = TopRanked(run.ranking, k),
                          !.processed = Append(@, run.tier),
                          !.kept = Append(@, TopRanked(run.ranking, k))]
  /\ UNCHANGED <<study, hero_vars>>

\* Continues with the tier index left as it is
NextTier_Same(tier) == tier

\* the tier after tier in the ordered sequence
NextTier(tier) == tier + 1

\* Continues without looking at the retained set
Continues_WhileTiers(r) == r.tier < r.tiers

\* the retained set is non-empty and further tiers remain
Continues(r) == r.retained # {} /\ r.tier < r.tiers

Advance ==
  /\ run.pc = "filtered"
  /\ Continues(run)
  /\ run' = StartTier(run, NextTier(run.tier), run.retained)
  /\ UNCHANGED <<study, hero_vars>>

\* the study with its status moved to Finished
Finished(s) == [s EXCEPT !.status = "Finished"]

Finish ==
  /\ run.pc = "filtered"
  /\ ~Continues(run)
  /\ study' = Finished(study)
  /\ run' = [run EXCEPT !.pc = "done"]
  /\ UNCHANGED hero_vars

RunStep ==
  \/ \E v \in Variations : BeginTrial(v)
  \/ \E v \in Variations : EndTrial(v)
  \/ Rank
  \/ Filter
  \/ Advance
  \/ Finish

StudyNext == Run \/ RunStep

StudySpec == StudyInit /\ [][StudyNext]_vars

\* A run, once called, executes to its end: no step of it waits on anything
\* but the trial executor, which returns an outcome for every call.
StudyLive == StudySpec /\ WF_vars(RunStep)

-----------------------------------------------------------------------------

Next ==
  \/ ValidateEquipment
  \/ CalculateElementQty
  \/ ScaleByClass
  \/ CalculateInnateTier
  \/ CalculateStatImprovements

Spec == Init /\ [][Next]_vars


-----------------------------------------------------------------------------
(* Properties                                                              *)

C1_Elems(seq) == {seq[k] : k \in 1..Len(seq)}

\* C1: validate_equipment returns iff the hero's class is a key of
\* hero_classes and every slot i holds a key of bp_map whose type is in the
\* class's equipment_allowed[i]; otherwise it panics.
C1_ValidateIff ==
  ret.op = "validate_equipment" =>
    ( ret.outcome = "ok" <=>
        /\ hero.class \in DOMAIN hero_classes
        /\ \A i \in Slots :
             /\ hero.equipment_equipped[i] \in DOMAIN bp_map
             /\ bp_map[hero.equipment_equipped[i]].type
                  \in C1_Elems(hero_classes[hero.class].equipment_allowed[i]) )

\* a validated hero with an item whose type another slot does not allow
C1_Witness ==
  /\ ret.op = "validate_equipment"
  /\ ret.outcome = "ok"
  /\ \E i, j \in Slots :
       bp_map[hero.equipment_equipped[i]].type
         \notin C1_Elems(hero_classes[hero.class].equipment_allowed[j])

\* points of one descriptor "<element> <grade>..." for alignment t
C2_Points(d, t) ==
  IF Len(d) >= 3 /\ d[1] = t[1] /\ Len(t) = 1 /\ d[2] = " "
    THEN CASE d[3] = "1" -> 5 [] d[3] = "2" -> 10
           [] d[3] = "3" -> 15 [] d[3] = "4" -> 25 [] OTHER -> 0
    ELSE 0

C2_Sum(h) ==
  C2_Points(h.elements_socketed[1], h.element_type)
  + C2_Points(h.elements_socketed[2], h.element_type)
  + C2_Points(h.elements_socketed[3], h.element_type)
  + C2_Points(h.elements_socketed[4], h.element_type)
  + C2_Points(h.elements_socketed[5], h.element_type)
  + C2_Points(h.elements_socketed[6], h.element_type)

\* C2: a returning calculate_element_qty yields the sum of the grade points
\* (5, 10, 15, 25) of the descriptors whose element is the hero's
\* element_type, the others counting 0; the result is within 0..150 and the
\* call leaves the hero as it was.
C2_ElementQty ==
  /\ [](ret.op = "calculate_element_qty" /\ ret.outcome = "ok" =>
          /\ ret.value = C2_Sum(hero)
          /\ ret.value \in 0..150)
  /\ [][ret'.op = "calculate_element_qty" => hero' = hero]_vars

\* a sum that mixes grades, with a descriptor of another element left out
C2_Witness ==
  /\ ret.op = "calculate_element_qty"
  /\ ret.outcome = "ok"
  /\ ret.value >= 60
  /\ \E i, j \in Slots :
       /\ hero.elements_socketed[i] = Desc("Water", "2")
       /\ hero.elements_socketed[j] = Desc("Fire", "4")
       /\ hero.element_type = Str("Fire")

C3_WellFormed(d) ==
  /\ Len(d) = 3
  /\ d[1] \notin Whitespace
  /\ d[2] = " "
  /\ d[3] \in {"1", "2", "3", "4"}

\* C3: calculate_element_qty panics whenever one of the six descriptors is
\* not of the shape "<element> <grade>" with grade 1..4, whether or not its
\* element is the hero's element_type.
C3_MalformedAborts ==
  ret.op = "calculate_element_qty"
    /\ (\E i \in Slots : ~C3_WellFormed(hero.elements_socketed[i]))
  => ret.outcome = "panic"

C4_Family(h) == class_innate_skill_names_map[h.class]

C4_Qualifying(h) ==
  { k \in DOMAIN innate_skill_map :
      /\ innate_skill_map[k].tier_1_name = C4_Family(h)
      /\ innate_skill_map[k].element_qty_req < C2_Sum(h) }

\* C4: calculate_innate_tier assigns the highest skill_tier among the
\* definitions of the class's family whose element_qty_req is strictly below
\* the hero's element quantity, whatever order the table is iterated in, and
\* panics instead of assigning when no definition qualifies.
C4_InnateTier ==
  ret.op = "calculate_innate_tier"
    /\ ret.site \notin {"element format", "element grade", "unknown class"}
  =>
    /\ ret.outcome = "ok" <=> C4_Qualifying(hero) # {}
    /\ ret.outcome = "ok" =>
         /\ \E k \in C4_Qualifying(hero) :
              innate_skill_map[k].skill_tier = hero.innate_tier
         /\ \A k \in C4_Qualifying(hero) :
              innate_skill_map[k].skill_tier <= hero.innate_tier

\* a tier chosen among several qualifying definitions, two of them of the
\* assigned tier
C4_Witness ==
  /\ ret.op = "calculate_innate_tier"
  /\ ret.outcome = "ok"
  /\ \E k1, k2 \in C4_Qualifying(hero) :
       /\ k1 # k2
       /\ innate_skill_map[k1].skill_tier = hero.innate_tier
       /\ innate_skill_map[k2].skill_tier = hero.innate_tier
  /\ \E k \in C4_Qualifying(hero) :
       innate_skill_map[k].skill_tier < hero.innate_tier

\* the element quantities six descriptors can add up to lie among these
C5_Quantities == {q \in 0..(6 * 25) : q % 5 = 0}

\* C5: with the class and the table fixed, a selection that succeeded for
\* quantity q1 succeeds for every q2 >= q1 and selects a tier at least as
\* high.
C5_Monotonic ==
  ret.op = "calculate_innate_tier" /\ ret.outcome = "ok" =>
    \A q2 \in C5_Quantities :
      q2 >= ret.value =>
        /\ InnateTiers(C4_Family(hero), q2) # {}
        /\ \A t \in InnateTiers(C4_Family(hero), q2) : t >= hero.innate_tier

\* a selection that a larger quantity takes to a higher tier
C5_Witness ==
  /\ ret.op = "calculate_innate_tier"
  /\ ret.outcome = "ok"
  /\ \E q2 \in C5_Quantities :
       /\ q2 > ret.value
       /\ \E t \in InnateTiers(C4_Family(hero), q2) : t > hero.innate_tier


\* the last call was a stat-improvement call that returned
C6_StatsDone ==
  ret.op = "calculate_stat_improvements" /\ ret.outcome = "ok"

C6_SkillFlat(h) ==
  hero_skill_map[h.skills[1]].attack_value
  + hero_skill_map[h.skills[2]].attack_value
  + hero_skill_map[h.skills[3]].attack_value
  + hero_skill_map[h.skills[4]].attack_value

C6_SkillPercent(h) ==
  hero_skill_map[h.skills[1]].attack_percent
  + hero_skill_map[h.skills[2]].attack_percent
  + hero_skill_map[h.skills[3]].attack_percent
  + hero_skill_map[h.skills[4]].attack_percent

\* the six per-item attack results, in 1/AU
C6_GearTotal ==
  ( calc.items[1].item_attack_final + calc.items[2].item_attack_final
    + calc.items[3].item_attack_final + calc.items[4].item_attack_final
    + calc.items[5].item_attack_final + calc.items[6].item_attack_final ) * PU

\* seeded base + spirit flat attack special + the skills' flat attack, in 1/AU
C6_Core ==
  calc.seeded_atk + (calc.spirit_bonus_atk_value + C6_SkillFlat(hero)) * AU

\* 1 + the skills' attack percent + class bonus + spirit percent, in 1/PU
C6_Multiplier ==
  PU + C6_SkillPercent(hero) + calc.class_bonus + calc.spirit_bonus_atk_percent

C7_SeededBase ==
  ret.op = "calculate_stat_improvements" =>
    /\ ret.site # "hp_seeds overflow"
    /\ ret.outcome = "ok" =>
         calc.seeded_atk = calc.base_atk + 4 * hero.hp_seeds * AU

\* C8: the class bonus in the attack-percent pool is q/100 for Geomancer and
\* Astramancer (q the element quantity), 40% of threat_rating for Chieftain
\* and 0 for every other class.
C8_ClassBonus ==
  C6_StatsDone =>
    calc.class_bonus =
      CASE hero.class \in {"Geomancer", "Astramancer"} -> C2_Sum(hero)
        [] hero.class = "Chieftain" -> 40 * hero.threat_rating
        [] OTHER -> 0

C9_Base(i) ==
  <<bp_map[hero.equipment_equipped[i]].atk * VU,
    bp_map[hero.equipment_equipped[i]].def * VU,
    bp_map[hero.equipment_equipped[i]].hp * VU>>

C9_ElementMatch(i) ==
  bp_map[hero.equipment_equipped[i]].elemental_affinity
    = Str(hero.elements_socketed[i][1])

C9_SpiritMatch(i) ==
  bp_map[hero.equipment_equipped[i]].spirit_affinity
    = Str(hero.spirits_socketed[i][1])

\* C9: in every slot the element bonus and the spirit bonus that enter the
\* item's Attack, Defense and HP results are each at most the blueprint's
\* value of that stat, the x1.5 of an affinity match included.
C9_BonusCapped ==
  calc.done =>
    \A i \in Slots :
      /\ \A k \in 1..3 :
           /\ calc.items[i].capped_elem[k] <= C9_Base(i)[k]
           /\ calc.items[i].capped_spirit[k] <= C9_Base(i)[k]
           /\ calc.items[i].elem[k] <= C9_Base(i)[k]
                => calc.items[i].capped_elem[k] = calc.items[i].elem[k]
           /\ calc.items[i].spirit[k] <= C9_Base(i)[k]
                => calc.items[i].capped_spirit[k] = calc.items[i].spirit[k]
      /\ calc.items[i].item_attack_final =
           ( bp_map[hero.equipment_equipped[i]].atk * calc.items[i].quality
             + calc.items[i].capped_elem[1] + calc.items[i].capped_spirit[1] )
           * (PU + calc.items[i].skill.atk + calc.items[i].skill.all)
      /\ calc.items[i].item_defense_final =
           ( bp_map[hero.equipment_equipped[i]].def * calc.items[i].quality
             + calc.items[i].capped_elem[2] + calc.items[i].capped_spirit[2] )
           * (PU + calc.items[i].skill.def + calc.items[i].skill.all)
      /\ calc.items[i].item_hp_final =
           ( bp_map[hero.equipment_equipped[i]].hp * calc.items[i].quality
             + calc.items[i].capped_elem[3] + calc.items[i].capped_spirit[3] )
           * (PU + calc.items[i].skill.all)

\* a matching element whose bonus passes the item's base only once amplified
C9_Witness ==
  /\ calc.done
  /\ \E i \in Slots, k \in 1..3 :
       /\ C9_ElementMatch(i)
       /\ calc.items[i].elem[k] > C9_Base(i)[k]
       /\ (calc.items[i].elem[k] * 2) \div 3 <= C9_Base(i)[k]
       /\ calc.items[i].capped_elem[k] = C9_Base(i)[k]
       /\ C9_Base(i)[k] > 0

\* what the slot's sockets give when the item has no matching affinity
C10_PlainElement(i) == GearElementBonus(hero.elements_socketed[i], << >>)
C10_PlainSpirit(i) == GearSpiritBonus(hero.spirits_socketed[i], << >>)

\* C10, as claimed: with an affinity match the flat Attack, Defense and HP
\* bonus the socket contributes to the item is strictly greater, by exactly
\* x1.5, than without the match.
C10_ContributionAmplified ==
  calc.done =>
    \A i \in Slots, k \in 1..3 :
      /\ C9_ElementMatch(i) =>
           /\ 2 * calc.items[i].capped_elem[k]
                = 3 * Min(C10_PlainElement(i)[k], C9_Base(i)[k])
           /\ calc.items[i].capped_elem[k]
                > Min(C10_PlainElement(i)[k], C9_Base(i)[k])
      /\ C9_SpiritMatch(i) =>
           /\ 2 * calc.items[i].capped_spirit[k]
                = 3 * Min(C10_PlainSpirit(i)[k], C9_Base(i)[k])
           /\ calc.items[i].capped_spirit[k]
                > Min(C10_PlainSpirit(i)[k], C9_Base(i)[k])

\* C10, amended: an affinity match multiplies the socket's flat Attack,
\* Defense and HP bonus by exactly 1.5 before the cap; the bonus contributed
\* after the cap is never smaller than without the match, and is strictly
\* greater by exactly x1.5 whenever the amplified bonus does not exceed the
\* item's base value of that stat.
C10_AmplifiedBeforeCap ==
  calc.done =>
    \A i \in Slots, k \in 1..3 :
      /\ C9_ElementMatch(i) =>
           /\ 2 * calc.items[i].elem[k] = 3 * C10_PlainElement(i)[k]
           /\ calc.items[i].elem[k] > C10_PlainElement(i)[k]
           /\ calc.items[i].capped_elem[k]
                >= Min(C10_PlainElement(i)[k], C9_Base(i)[k])
           /\ calc.items[i].elem[k] <= C9_Base(i)[k] =>
                /\ 2 * calc.items[i].capped_elem[k]
                     = 3 * Min(C10_PlainElement(i)[k], C9_Base(i)[k])
                /\ calc.items[i].capped_elem[k]
                     > Min(C10_PlainElement(i)[k], C9_Base(i)[k])
      /\ C9_SpiritMatch(i) =>
           /\ 2 * calc.items[i].spirit[k] = 3 * C10_PlainSpirit(i)[k]
           /\ calc.items[i].spirit[k] > C10_PlainSpirit(i)[k]
           /\ calc.items[i].capped_spirit[k]
                >= Min(C10_PlainSpirit(i)[k], C9_Base(i)[k])
           /\ calc.items[i].spirit[k] <= C9_Base(i)[k] =>
                /\ 2 * calc.items[i].capped_spirit[k]
                     = 3 * Min(C10_PlainSpirit(i)[k], C9_Base(i)[k])
                /\ calc.items[i].capped_spirit[k]
                     > Min(C10_PlainSpirit(i)[k], C9_Base(i)[k])

\* one item with a matching element and a matching spirit, the cap binding
\* on one stat and not on another
C10_Witness ==
  /\ calc.done
  /\ \E i \in Slots :
       /\ C9_ElementMatch(i)
       /\ C9_SpiritMatch(i)
       /\ \E k \in 1..3 : calc.items[i].elem[k] <= C9_Base(i)[k]
       /\ \E k \in 1..3 : calc.items[i].elem[k] > C9_Base(i)[k]
       /\ \E k \in 1..3 : calc.items[i].spirit[k] <= C9_Base(i)[k]

\* the rearrangements of the six slot indices
C11_Perms ==
  {p \in [Slots -> Slots] : \A i, j \in Slots : p[i] = p[j] => i = j}

\* h with slot i holding what slot p[i] held, in all four parallel arrays
C11_Permute(h, p) ==
  [h EXCEPT
     !.equipment_equipped = [i \in Slots |-> h.equipment_equipped[p[i]]],
     !.equipment_quality = [i \in Slots |-> h.equipment_quality[p[i]]],
     !.elements_socketed = [i \in Slots |-> h.elements_socketed[p[i]]],
     !.spirits_socketed = [i \in Slots |-> h.spirits_socketed[p[i]]]]

\* the hero as the returned stat-improvement call found it
C11_Before == [hero EXCEPT !.atk = calc.base_atk, !.atk_modifier = 0]

\* C11: rearranging the six slots of the equipped-item, quality, element
\* and spirit arrays by one permutation leaves the atk and the atk_modifier
\* that calculate_stat_improvements_from_gear_and_skills produces
\* unchanged, also when several slots hold different spirits with the same
\* kind of special effect.
C11_SlotOrderIndependent ==
  C6_StatsDone =>
    \A p \in C11_Perms, checked \in BOOLEAN :
      LET r == stat_improvements(C11_Permute(C11_Before, p), checked)
      IN  r.site = "" =>
            /\ r.new_atk = hero.atk
            /\ r.new_atk_mod = hero.atk_modifier

\* the three resolution steps that write to the hero
C17_Steps ==
  {"scale_by_class", "calculate_innate_tier", "calculate_stat_improvements"}

\* C17, as claimed: when scale_by_class, calculate_innate_tier or
\* calculate_stat_improvements_from_gear_and_skills aborts, every field of
\* the hero is as it was before the step.
C17_AbortLeavesHero ==
  [][ret'.outcome = "panic" /\ ret'.op \in C17_Steps => hero' = hero]_vars

\* C17, amended: an aborting calculate_innate_tier or
\* calculate_stat_improvements_from_gear_and_skills leaves every field of
\* the hero as it was, and so does scale_by_class aborting on an unknown
\* class, on level 0 or on a level without a base_hp entry; scale_by_class
\* aborting on a level that has a base_hp entry but no base_atk entry has
\* already assigned hp, and aborting on a level that has base_hp and
\* base_atk entries but no base_def entry has already assigned hp and atk,
\* every other field being as it was.
C17_AbortAfterCurveReads ==
  [][ret'.outcome = "panic" /\ ret'.op \in C17_Steps =>
       IF ret'.op = "scale_by_class" /\ ret'.site = "base_atk index"
         THEN hero' = [hero EXCEPT
                !.hp = hero_classes[hero.class].base_hp[hero.level] * AU]
       ELSE IF ret'.op = "scale_by_class" /\ ret'.site = "base_def index"
         THEN hero' = [hero EXCEPT
                !.hp = hero_classes[hero.class].base_hp[hero.level] * AU,
                !.atk = hero_classes[hero.class].base_atk[hero.level] * AU]
       ELSE hero' = hero]_vars

\* scale_by_class aborted on the defense curve with hp and atk assigned
C17_Witness ==
  /\ ret.op = "scale_by_class"
  /\ ret.outcome = "panic"
  /\ ret.site = "base_def index"
  /\ hero.hp > 0
  /\ hero.atk > 0
  /\ hero.def = 0

C18_ScaleFields ==
  {"hp", "atk", "def", "eva", "crit_chance", "crit_mult", "element_type"}

C18_NeverWritten ==
  {"identifier", "class", "level", "rank", "hp_seeds", "atk_seeds",
   "def_seeds", "skills", "equipment_equipped", "equipment_quality",
   "elements_socketed", "spirits_socketed"}

\* the fields of the hero that differ between h1 and h2
C18_Changed(h1, h2) == {f \in DOMAIN h1 : h1[f] # h2[f]}

\* C18: scale_by_class changes only hp, atk, def, eva, crit_chance,
\* crit_mult and element_type; calculate_innate_tier only innate_tier;
\* calculate_stat_improvements_from_gear_and_skills only atk and
\* atk_modifier; and no step changes identifier, class, level, rank, the
\* seed counts, skills or the four equipment arrays.
C18_Frame ==
  [][ /\ DOMAIN hero' = DOMAIN hero
      /\ ret'.op = "scale_by_class"
           => C18_Changed(hero, hero') \subseteq C18_ScaleFields
      /\ ret'.op = "calculate_innate_tier"
           => C18_Changed(hero, hero') \subseteq {"innate_tier"}
      /\ ret'.op = "calculate_stat_improvements"
           => C18_Changed(hero, hero') \subseteq {"atk", "atk_modifier"}
      /\ C18_Changed(hero, hero') \cap C18_NeverWritten = {} ]_vars

\* a hero on which each of the three steps has written its fields
C18_Witness ==
  /\ C6_StatsDone
  /\ hero.hp > 0
  /\ hero.eva > 0
  /\ hero.innate_tier > 0
  /\ hero.atk > calc.base_atk
  /\ calc.base_atk > 0
  /\ hero.atk_modifier > 0
  /\ hero.def_modifier = 0

C14_ThresholdDisables ==
  study.runoff_scoring_threshold = 100 /\ run.pc \in {"filtered", "done"} =>
    /\ run.retained = run.candidates
    /\ \A k \in 1..Len(run.kept) : run.kept[k] = run.entered[k]

\* a filter at threshold 100 over candidates with different scores
C14_Witness ==
  /\ study.runoff_scoring_threshold = 100
  /\ run.pc = "filtered"
  /\ run.tier = 2
  /\ Cardinality(run.retained) = MaxVariations
  /\ \E v, w \in run.candidates : run.score[v] < run.score[w]

\* C15: at every tier the retained set is a subset of the candidate set
\* that entered the tier, and a tier's candidates are the set retained by
\* the tier before; the tiers processed so far are the first tiers of the
\* tier list, in order, none left out and none repeated.
C15_ShrinkingPrefix ==
  /\ run.retained \subseteq run.candidates
  /\ Len(run.kept) = Len(run.processed)
  /\ Len(run.entered) = run.tier
  /\ \A k \in 1..Len(run.kept) : run.kept[k] \subseteq run.entered[k]
  /\ \A k \in 2..Len(run.entered) : run.entered[k] = run.kept[k - 1]
  /\ Len(run.processed) <= run.tiers
  /\ \A k \in 1..Len(run.processed) : run.processed[k] = k
  /\ Len(run.processed) \in {run.tier - 1, run.tier}

\* a second tier entered with fewer candidates than the first, and
\* filtered down again
C15_Witness ==
  /\ run.pc = "filtered"
  /\ run.processed = <<1, 2>>
  /\ run.entered[2] # run.entered[1]
  /\ run.entered[2] # {}
  /\ run.kept[2] # run.entered[2]

\* C16: ranking and filtering of a tier happen only when every candidate of
\* the tier has had all its simulation_qty trials and none is still being
\* run; a trial is begun only for a candidate of the current tier, and for
\* a tier after the first only when the tier before has been filtered and
\* has retained that candidate.
C16_Barrier ==
  /\ run.pc \in {"ranking", "filtered", "done"} =>
       /\ run.in_trial = {}
       /\ \A v \in run.candidates : run.trials[v] = study.simulation_qty
  /\ \A v \in Variations :
       /\ run.trials[v] <= study.simulation_qty
       /\ v \in run.in_trial \/ run.trials[v] > 0 =>
            /\ v \in run.candidates
            /\ Len(run.kept) >= run.tier - 1
            /\ run.tier > 1 => v \in run.kept[run.tier - 1]
       /\ v \in run.in_trial =>
            run.pc = "trials" /\ Len(run.kept) = run.tier - 1

\* in the second tier one worker is in its last trial while another has
\* finished all of its trials
C16_Witness ==
  /\ run.pc = "trials"
  /\ run.tier = 2
  /\ study.simulation_qty >= 2
  /\ \E v, w \in run.candidates :
       /\ v \in run.in_trial
       /\ run.trials[v] = study.simulation_qty - 1
       /\ run.trials[w] = study.simulation_qty

=============================================================================
